---- MODULE Spec2Model ----
(***************************************************************************)
(* Model of storage.FileSystemBase (src/src/storage/filesystem.go): a      *)
(* name-addressed blob store on the local filesystem, guarded by one       *)
(* sync.RWMutex, whose writes go through a temp file and an atomic rename. *)
(*                                                                         *)
(* The filesystem is modelled with inodes: a directory maps paths to       *)
(* inodes, an open file descriptor keeps its inode alive after the path    *)
(* has been renamed over or removed, and every inode has its current data  *)
(* and the part of it that a sync has made durable.                        *)
(***************************************************************************)
EXTENDS Integers, Sequences, FiniteSets, TLC

\* ---------------------------------------------------------------- bounds
NumProcs == 2      \* goroutines calling into the one store instance
MaxCalls == 4      \* calls issued in one run, over all goroutines
NumSuffix == 1     \* distinct random suffixes ioutil.TempFile can draw
FairCalls == 3     \* calls issued in one run of the fair specification
LeakFrom == 3      \* a deferred os.Remove can fail from this call on

Procs == 1 .. NumProcs
Names == {"n1", "n2"}
Suffixes == 1 .. NumSuffix
\* Values a caller passes to SetString / SetFile: one with surrounding
\* whitespace, one of two bytes so that a copy in progress has a proper
\* non-empty prefix (32 is ' ', 97 'a', 98 'b').
Values == {<<32, 97, 32>>, <<98, 98>>}

\* Inode numbers; 0 stands for "no inode" (no such file, no open file).
Inodes == 1 .. (Cardinality(Names) + NumProcs)

\* A path is <<base name, suffix>>. resolvePath is injective and its range
\* holds no temp-file name: the path of name n is <<n, 0>>, the temp files
\* ioutil.TempFile(dir, file) can create for it are <<n, k>>, k a suffix.
resolvePath(n) == <<n, 0>>
TempPath(n, k) == <<n, k>>
Paths == Names \X (0 .. NumSuffix)
NoPath == <<"none", 0>>

Ops == {"GetString", "GetFile", "SetString", "SetFile", "RemoveFile"}

\* --------------------------------------------------------- pure functions
\* unicode.IsSpace on the ASCII range.
IsSpace(b) == b \in {9, 10, 11, 12, 13, 32}

RECURSIVE TrimLeft(_)
TrimLeft(s) == IF s # <<>> /\ IsSpace(Head(s)) THEN TrimLeft(Tail(s)) ELSE s

RECURSIVE TrimRight(_)
TrimRight(s) ==
    IF s # <<>> /\ IsSpace(s[Len(s)]) THEN TrimRight(SubSeq(s, 1, Len(s) - 1)) ELSE s

\* strings.TrimSpace
TrimSpace(s) == TrimRight(TrimLeft(s))

VARIABLES
    dir,        \* path -> inode (0: no such file)
    data,       \* inode -> bytes currently in the file
    durable,    \* inode -> bytes a sync has made durable
    muW,        \* goroutine that holds the RWMutex's writer side (0: none)
    muR,        \* goroutines that hold the RWMutex's reader side
    pc,         \* goroutine -> position in its current call
    op,         \* goroutine -> operation of its current call
    name,       \* goroutine -> name argument
    value,      \* goroutine -> content the call writes
    fname,      \* goroutine -> f.Name(), the temp path (NoPath: none)
    fd,         \* goroutine -> inode of its open file (0: none)
    created,    \* goroutine -> inode its TempFile created (0: none)
    err,        \* goroutine -> error of its current call
    ret,        \* goroutine -> value of its current call
    ncalls,     \* calls issued so far
    crashed,    \* the process was stopped and restarted
    last,       \* name -> what the last write or remove that took effect left
    hist,       \* goroutine -> bookkeeping of its current call
    failed      \* names that a write call returned an error for

vars == <<dir, data, durable, muW, muR, pc, op, name, value, fname, fd, created,
          err, ret, ncalls, crashed, last, hist, failed>>

fsVars == <<dir, data, durable, fd, created>>
muVars == <<muW, muR>>

\* ------------------------------------------------------------ filesystem
\* Inodes that a path or an open file descriptor still refers to.
Live(d, f) == ({d[x] : x \in Paths} \cup {f[p] : p \in Procs}) \ {0}

\* The filesystem and the open files become d, dt, du, f (and c for the
\* inodes the write calls created). An inode that nothing refers to any
\* more is gone, and so is its data.
SetFS(d, dt, du, f, c) ==
    /\ dir' = d
    /\ fd' = f
    /\ created' = [p \in Procs |-> IF c[p] \in Live(d, f) THEN c[p] ELSE 0]
    /\ data' = [i \in Inodes |-> IF i \in Live(d, f) THEN dt[i] ELSE <<>>]
    /\ durable' = [i \in Inodes |-> IF i \in Live(d, f) THEN du[i] ELSE <<>>]

\* The inode a newly created file gets: the lowest free number.
FreshIno ==
    CHOOSE i \in Inodes :
        /\ i \notin Live(dir, fd)
        /\ \A j \in Inodes : j < i => j \in Live(dir, fd)

\* What a name holds according to the calls that took effect: nothing, or
\* the content val that a successful SetString / SetFile (by) put there.
NoLast == [has |-> FALSE, by |-> "none", val |-> <<>>]
\* Bookkeeping of a call: its replace step succeeded; one of its writes went
\* into a file that a destination path refers to; for GetFile, what the
\* file held (snap) and what the name held (want) when it was opened; the
\* removal of its temp file failed (kept).
NoHist ==
    [replaced |-> FALSE, wrote |-> FALSE, kept |-> FALSE, snap |-> <<>>, want |-> NoLast]


Init ==
    /\ dir = [x \in Paths |-> 0]
    /\ data = [i \in Inodes |-> <<>>]
    /\ durable = [i \in Inodes |-> <<>>]
    /\ muW = 0
    /\ muR = {}
    /\ pc = [p \in Procs |-> "idle"]
    /\ op = [p \in Procs |-> "none"]
    /\ name = [p \in Procs |-> "n1"]
    /\ value = [p \in Procs |-> <<>>]
    /\ fname = [p \in Procs |-> NoPath]
    /\ fd = [p \in Procs |-> 0]
    /\ created = [p \in Procs |-> 0]
    /\ err = [p \in Procs |-> "nil"]
    /\ ret = [p \in Procs |-> <<>>]
    /\ ncalls = 0
    /\ crashed = FALSE
    /\ last = [n \in Names |-> NoLast]
    /\ hist = [p \in Procs |-> NoHist]
    /\ failed = {}

\* ------------------------------------------------------------- the calls
\* The bytes a write call puts into its temp file: setString trims the
\* value (line 51), setFile copies the stream as it is (line 80).
Content(p) == IF op[p] = "SetString" THEN TrimSpace(value[p]) ELSE value[p]

FirstPc(o) ==
    CASE o \in {"GetString", "GetFile"} -> "RLock"
      [] o \in {"SetString", "RemoveFile"} -> "Lock"
      [] o = "SetFile" -> "TempFile"

\* A goroutine calls one of the five operations; idle goroutines are
\* interchangeable, the lowest one takes the call. After a restart only the
\* reads are issued.
Issue(p, o, n, v, most) ==
    /\ pc[p] = "idle"
    /\ \A q \in Procs : q < p => pc[q] # "idle"
    /\ ncalls < most
    /\ crashed => o \in {"GetString", "GetFile"}
    /\ ncalls' = ncalls + 1
    /\ op' = [op EXCEPT ![p] = o]
    /\ name' = [name EXCEPT ![p] = n]
    /\ value' = [value EXCEPT ![p] = IF o \in {"SetString", "SetFile"} THEN v ELSE <<>>]
    /\ pc' = [pc EXCEPT ![p] = FirstPc(o)]
    /\ UNCHANGED <<fsVars, muVars, fname, err, ret, crashed, last, hist, failed>>

Call(p, o, n, v) == Issue(p, o, n, v, MaxCalls)

\* The call returns to its caller: the goroutine is idle again. The result
\* (err, ret) is the one the goroutine holds in the step that returns.
Return(p) ==
    /\ pc' = [pc EXCEPT ![p] = "idle"]
    /\ op' = [op EXCEPT ![p] = "none"]
    /\ name' = [name EXCEPT ![p] = "n1"]
    /\ value' = [value EXCEPT ![p] = <<>>]
    /\ fname' = [fname EXCEPT ![p] = NoPath]
    /\ err' = [err EXCEPT ![p] = "nil"]
    /\ ret' = [ret EXCEPT ![p] = <<>>]
    /\ hist' = [hist EXCEPT ![p] = NoHist]
    /\ failed' = IF op[p] \in {"SetString", "SetFile"} /\ err[p] # "nil"
                 THEN failed \cup {name[p]}
                 ELSE failed

\* The call goes on at position l.
Goto(p, l) ==
    /\ pc' = [pc EXCEPT ![p] = l]
    /\ UNCHANGED <<op, name, value>>

\* ------------------------------------------------------------ sync.RWMutex
\* A lock that would let readers in whatever the writers do.
CanRLockAlways == TRUE

\* RLock is granted unless a writer holds or awaits the lock.
CanRLock == muW = 0

\* Lock first excludes other writers and new readers ...
CanLock == muW = 0

\* A lock that would never see its readers leave.
ReadersNeverGone == FALSE

\* ... and then waits for the readers that are inside to leave.
ReadersGone == muR = {}

RLock(p) ==
    /\ pc[p] = "RLock"
    /\ CanRLock
    /\ muR' = muR \cup {p}
    /\ Goto(p, "Read")
    /\ UNCHANGED <<fsVars, muW, fname, err, ret, ncalls, crashed, last, hist, failed>>

\* A read that would return with the shared lock still held.
RUnlockHeld(p) ==
    /\ pc[p] = "RUnlock"
    /\ muR' = muR
    /\ IF op[p] = "GetFile" /\ err[p] = "nil"
       THEN Goto(p, "HRead") /\ UNCHANGED <<fname, err, ret, hist, failed>>
       ELSE Return(p)
    /\ UNCHANGED <<fsVars, muW, ncalls, crashed, last>>

\* The deferred a.mu.RUnlock() of GetString and GetFile. GetString returns;
\* GetFile returns the open handle, which its caller reads and closes.
RUnlock(p) ==
    /\ pc[p] = "RUnlock"
    /\ muR' = muR \ {p}
    /\ IF op[p] = "GetFile" /\ err[p] = "nil"
       THEN Goto(p, "HRead") /\ UNCHANGED <<fname, err, ret, hist, failed>>
       ELSE Return(p)
    /\ UNCHANGED <<fsVars, muW, ncalls, crashed, last>>

Lock(p) ==
    /\ pc[p] = "Lock"
    /\ CanLock
    /\ muW' = p
    /\ Goto(p, "LockWait")
    /\ UNCHANGED <<fsVars, muR, fname, err, ret, ncalls, crashed, last, hist, failed>>

\* What a call does first inside the exclusive section.
LockedPc(o) ==
    CASE o = "SetString" -> "TempFile"
      [] o = "SetFile" -> "Replace"
      [] o = "RemoveFile" -> "Remove"

LockWait(p) ==
    /\ pc[p] = "LockWait"
    /\ ReadersGone
    /\ Goto(p, LockedPc(op[p]))
    /\ UNCHANGED <<fsVars, muVars, fname, err, ret, ncalls, crashed, last, hist, failed>>

\* The deferred a.mu.Unlock() of SetString, setFile and RemoveFile. In
\* setFile the deferred f.Close() and os.Remove(f.Name()) run after it.
Unlock(p) ==
    /\ pc[p] = "Unlock"
    /\ muW' = 0
    /\ IF op[p] = "SetFile"
       THEN /\ Goto(p, "Defer")
            /\ UNCHANGED <<fsVars, fname, err, ret, hist, failed>>
       ELSE /\ Return(p)
            /\ SetFS(dir, data, durable, fd, [created EXCEPT ![p] = 0])
    /\ UNCHANGED <<muR, ncalls, crashed, last>>

\* ------------------------------------------------------------------ reads
\* getString: ioutil.ReadFile, then strings.TrimSpace.
ReadString(path) == TrimSpace(data[dir[path]])

GetStringRead(p) ==
    /\ pc[p] = "Read"
    /\ op[p] = "GetString"
    /\ \/ /\ dir[resolvePath(name[p])] = 0
          /\ err' = [err EXCEPT ![p] = "NotFound"]
          /\ ret' = ret
       \/ /\ dir[resolvePath(name[p])] # 0
          /\ \/ /\ err' = err
                /\ ret' = [ret EXCEPT ![p] = ReadString(resolvePath(name[p]))]
             \/ /\ err' = [err EXCEPT ![p] = "IOError"]
                /\ ret' = ret
    /\ hist' = hist
    /\ Goto(p, "RUnlock")
    /\ UNCHANGED <<fsVars, muVars, fname, ncalls, crashed, last, failed>>

\* getFile: os.Open. The handle refers to the inode the path has now.
OpenFile(path) == dir[path]

GetFileOpen(p) ==
    /\ pc[p] = "Read"
    /\ op[p] = "GetFile"
    /\ \/ /\ dir[resolvePath(name[p])] = 0
          /\ err' = [err EXCEPT ![p] = "NotFound"]
          /\ UNCHANGED <<fsVars, hist>>
       \/ /\ dir[resolvePath(name[p])] # 0
          /\ \/ /\ err' = err
                /\ SetFS(dir, data, durable,
                         [fd EXCEPT ![p] = OpenFile(resolvePath(name[p]))], created)
                /\ hist' = [hist EXCEPT ![p].want = last[name[p]],
                                        ![p].snap = data[dir[resolvePath(name[p])]]]
             \/ /\ err' = [err EXCEPT ![p] = "IOError"]
                /\ UNCHANGED <<fsVars, hist>>
    /\ Goto(p, "RUnlock")
    /\ UNCHANGED <<muVars, fname, ret, ncalls, crashed, last, failed>>

\* The caller of GetFile reads the handle to the end, at any later time ...
HandleRead(p) ==
    /\ pc[p] = "HRead"
    /\ ret' = [ret EXCEPT ![p] = data[fd[p]]]
    /\ Goto(p, "HClose")
    /\ UNCHANGED <<fsVars, muVars, fname, err, ncalls, crashed, last, hist, failed>>

\* ... and closes it.
HandleClose(p) ==
    /\ pc[p] = "HClose"
    /\ SetFS(dir, data, durable, [fd EXCEPT ![p] = 0], created)
    /\ Return(p)
    /\ UNCHANGED <<muVars, ncalls, crashed, last>>

\* ----------------------------------------------------------------- writes
\* A write that would report every failure as one of the copy.
StageErrSave(p, stage) == "save file"

\* The message a failing stage of the write reports: setFile wraps the
\* cause with its own labels, SetString returns atomic.WriteFile's error.
StageErr(p, stage) ==
    IF op[p] = "SetFile"
    THEN CASE stage = "TempFile" -> "create temp file"
           [] stage = "Copy" -> "save file"
           [] stage = "Sync" -> "sync changes"
           [] stage = "Close" -> "close file"
           [] stage = "Replace" -> "replace file"
    ELSE CASE stage = "TempFile" -> "cannot create temp file"
           [] stage = "Copy" -> "cannot write data to tempfile"
           [] stage = "Sync" -> "can't flush tempfile"
           [] stage = "Close" -> "can't close tempfile"
           [] stage = "Replace" -> "cannot replace"

\* A write that would return from a failing stage without its deferred calls.
AfterStageNoDefer(p, stage) == IF op[p] = "SetFile" THEN "Ret" ELSE "Unlock"

\* A write that would run the deferred Unlock after whatever stage failed.
AfterStageUnlocks(p, stage) == "Unlock"

\* Where a write goes when a stage fails, and after the replace step.
\* setFile: no deferred call is registered before the temp file exists
\* (line 76 returns); later the deferred calls run, Unlock first if the lock
\* was taken. SetString: atomic.WriteFile's deferred calls run inside the
\* exclusive section, then SetString's deferred Unlock.
AfterStage(p, stage) ==
    IF op[p] = "SetFile"
    THEN CASE stage = "TempFile" -> "Ret"
           [] stage = "Replace" -> "Unlock"
           [] OTHER -> "Defer"
    ELSE IF stage = "TempFile" THEN "Unlock" ELSE "WFDefer"

\* ioutil.TempFile(dir, file): creates, with O_EXCL, a file with a name that
\* no file has at this moment.
FreeSuffixes(n) == {k \in Suffixes : dir[TempPath(n, k)] = 0}

TempFile(p) ==
    /\ pc[p] = "TempFile"
    /\ \/ /\ err' = [err EXCEPT ![p] = StageErr(p, "TempFile")]
          /\ Goto(p, AfterStage(p, "TempFile"))
          /\ UNCHANGED <<fsVars, fname>>
       \/ \E k \in FreeSuffixes(name[p]) :
             /\ SetFS([dir EXCEPT ![TempPath(name[p], k)] = FreshIno], data, durable,
                      [fd EXCEPT ![p] = FreshIno], [created EXCEPT ![p] = FreshIno])
             /\ fname' = [fname EXCEPT ![p] = TempPath(name[p], k)]
             /\ Goto(p, "Copy")
             /\ err' = err
    /\ UNCHANGED <<muVars, ret, ncalls, crashed, last, hist, failed>>

\* setFile returns the error of TempFile.
Ret(p) ==
    /\ pc[p] = "Ret"
    /\ Return(p)
    /\ UNCHANGED <<fsVars, muVars, ncalls, crashed, last>>

\* io.Copy(f, value). A stream is copied chunk by chunk (one byte stands for
\* io.Copy's buffer); the bytes.Reader of setString writes itself with one
\* Write (bytes.Reader.WriteTo).
NextChunk(p) ==
    IF op[p] = "SetString"
    THEN Content(p)
    ELSE SubSeq(Content(p), Len(data[fd[p]]) + 1, Len(data[fd[p]]) + 1)

Copy(p) ==
    /\ pc[p] = "Copy"
    /\ \/ /\ err' = [err EXCEPT ![p] = StageErr(p, "Copy")]
          /\ Goto(p, AfterStage(p, "Copy"))
          /\ data' = data
       \/ /\ data' = [data EXCEPT ![fd[p]] = @ \o NextChunk(p)]
          /\ Goto(p, IF Len(data'[fd[p]]) >= Len(Content(p)) THEN "Sync" ELSE "Copy")
          /\ err' = err
    /\ hist' = [hist EXCEPT ![p].wrote =
                    @ \/ (pc'[p] # "WFDefer" /\ pc'[p] # "Defer"
                          /\ \E n \in Names : dir[resolvePath(n)] = fd[p])]
    /\ UNCHANGED <<dir, durable, fd, created, muVars, fname, ret, ncalls, crashed, last, failed>>

\* f.Sync(): what is in the file becomes durable.
Synced(i) == data[i]

Sync(p) ==
    /\ pc[p] = "Sync"
    /\ \/ /\ err' = [err EXCEPT ![p] = StageErr(p, "Sync")]
          /\ Goto(p, AfterStage(p, "Sync"))
          /\ durable' = durable
       \/ /\ durable' = [durable EXCEPT ![fd[p]] = Synced(fd[p])]
          /\ Goto(p, "Close")
          /\ err' = err
    /\ UNCHANGED <<dir, data, fd, created, muVars, fname, ret, ncalls, crashed,
                   last, hist, failed>>

\* f.Close(): the descriptor is released, also when Close reports an error.
\* setFile takes the lock next (block is true at SetFile's call, line 66).
\* A setFile called with block false goes on to the replace step (line 89).
AfterCloseUnlocked(o) == "Replace"

AfterClose(o) == IF o = "SetFile" THEN "Lock" ELSE "Replace"

Close(p) ==
    /\ pc[p] = "Close"
    /\ SetFS(dir, data, durable, [fd EXCEPT ![p] = 0], created)
    /\ \/ /\ err' = [err EXCEPT ![p] = StageErr(p, "Close")]
          /\ Goto(p, AfterStage(p, "Close"))
       \/ /\ err' = err
          /\ Goto(p, AfterClose(op[p]))
    /\ UNCHANGED <<muVars, fname, ret, ncalls, crashed, last, hist, failed>>

\* A replace that would keep a destination that exists.
ReplaceFileKeepFirst(d, src, dst) ==
    IF d[dst] # 0 THEN [d EXCEPT ![src] = 0] ELSE [d EXCEPT ![dst] = d[src], ![src] = 0]

\* atomic.ReplaceFile(source, destination) is os.Rename: the destination
\* path comes to refer to the source's inode and the source path is gone,
\* in one step.
ReplaceFile(d, src, dst) == [d EXCEPT ![dst] = d[src], ![src] = 0]

\* A remove that would report success and leave the file.
KeepPath(d, path) == d

\* os.Remove(path)
RemovePath(d, path) == [d EXCEPT ![path] = 0]

Replace(p) ==
    /\ pc[p] = "Replace"
    /\ \/ /\ err' = [err EXCEPT ![p] = StageErr(p, "Replace")]
          /\ UNCHANGED <<fsVars, last, hist>>
       \/ /\ dir[fname[p]] # 0
          /\ SetFS(ReplaceFile(dir, fname[p], resolvePath(name[p])), data, durable,
                   fd, created)
          /\ last' = [last EXCEPT ![name[p]] = [has |-> TRUE, by |-> op[p], val |-> Content(p)]]
          /\ hist' = [hist EXCEPT ![p].replaced = TRUE]
          /\ err' = err
    /\ Goto(p, AfterStage(p, "Replace"))
    /\ UNCHANGED <<muVars, fname, ret, ncalls, crashed, failed>>

\* The error of a deferred os.Remove is dropped: when it fails the file
\* stays. The runs try this from the LeakFrom-th call on, in a call that no
\* other call overlaps.
RemoveMayFail ==
    /\ ncalls >= LeakFrom
    /\ Cardinality({q \in Procs : pc[q] # "idle"}) = 1

\* setFile's deferred f.Close() and os.Remove(f.Name()), lines 78-79: they
\* run on every return after the temp file was created, after the deferred
\* Unlock.
Defer(p) ==
    /\ pc[p] = "Defer"
    /\ \/ SetFS(RemovePath(dir, fname[p]), data, durable, [fd EXCEPT ![p] = 0],
                [created EXCEPT ![p] = 0])
       \/ /\ dir[fname[p]] # 0 /\ RemoveMayFail
          /\ SetFS(dir, data, durable, [fd EXCEPT ![p] = 0], [created EXCEPT ![p] = 0])
    /\ Return(p)
    /\ UNCHANGED <<muVars, ncalls, crashed, last>>

\* atomic.WriteFile's deferred calls: f.Close(), and os.Remove(f.Name())
\* when the write failed. SetString's deferred Unlock runs after them.
WFDefer(p) ==
    /\ pc[p] = "WFDefer"
    /\ \/ /\ SetFS(IF err[p] # "nil" THEN RemovePath(dir, fname[p]) ELSE dir, data,
                   durable, [fd EXCEPT ![p] = 0], created)
          /\ hist' = hist
       \/ /\ err[p] # "nil" /\ dir[fname[p]] # 0 /\ RemoveMayFail
          /\ SetFS(dir, data, durable, [fd EXCEPT ![p] = 0], created)
          /\ hist' = [hist EXCEPT ![p].kept = TRUE]
    /\ Goto(p, "Unlock")
    /\ UNCHANGED <<muVars, fname, err, ret, ncalls, crashed, last, failed>>

\* removeFile: os.Remove of the resolved path.
Remove(p) ==
    /\ pc[p] = "Remove"
    /\ \/ /\ dir[resolvePath(name[p])] = 0
          /\ err' = [err EXCEPT ![p] = "NotFound"]
          /\ UNCHANGED <<fsVars, last>>
       \/ /\ dir[resolvePath(name[p])] # 0
          /\ \/ /\ SetFS(RemovePath(dir, resolvePath(name[p])), data, durable, fd, created)
                /\ last' = [last EXCEPT ![name[p]] = [NoLast EXCEPT !.by = "RemoveFile"]]
                /\ err' = err
             \/ /\ err' = [err EXCEPT ![p] = "IOError"]
                /\ UNCHANGED <<fsVars, last>>
    /\ Goto(p, "Unlock")
    /\ UNCHANGED <<muVars, fname, ret, ncalls, crashed, hist, failed>>

\* ------------------------------------------------------------------ crash
\* The process stops at any step and is started again: its goroutines,
\* their open files and the lock are gone, the files stay. With a loss of
\* power the files keep only what was synced.
Crash(loss) ==
    /\ ~crashed
    /\ ncalls < MaxCalls
    /\ \E p \in Procs : pc[p] # "idle"
    /\ crashed' = TRUE
    /\ pc' = [p \in Procs |-> "idle"]
    /\ op' = [p \in Procs |-> "none"]
    /\ name' = [p \in Procs |-> "n1"]
    /\ value' = [p \in Procs |-> <<>>]
    /\ fname' = [p \in Procs |-> NoPath]
    /\ err' = [p \in Procs |-> "nil"]
    /\ ret' = [p \in Procs |-> <<>>]
    /\ hist' = [p \in Procs |-> NoHist]
    /\ muW' = 0
    /\ muR' = {}
    /\ SetFS(dir, IF loss THEN durable ELSE data, durable, [p \in Procs |-> 0],
             [p \in Procs |-> 0])
    /\ UNCHANGED <<ncalls, last, failed>>

\* A step of a call in progress.
Proceed(p) ==
    \/ RLock(p)
    \/ GetStringRead(p)
    \/ GetFileOpen(p)
    \/ RUnlock(p)
    \/ HandleRead(p)
    \/ HandleClose(p)
    \/ Lock(p)
    \/ LockWait(p)
    \/ TempFile(p)
    \/ Ret(p)
    \/ Copy(p)
    \/ Sync(p)
    \/ Close(p)
    \/ Replace(p)
    \/ Unlock(p)
    \/ Defer(p)
    \/ WFDefer(p)
    \/ Remove(p)

Next ==
    \/ \E p \in Procs, o \in Ops, n \in Names, v \in Values : Call(p, o, n, v)
    \/ \E p \in Procs : Proceed(p)
    \/ \E loss \in BOOLEAN : Crash(loss)

Spec == Init /\ [][Next]_vars

\* Every filesystem step terminates and the Go scheduler runs every goroutine
\* that can run: a call in progress that can take its next step takes it.
\* The fair runs issue FairCalls calls, NumProcs of them at a time.
FairCall(p, o, n, v) == Issue(p, o, n, v, FairCalls)

FairNext ==
    \/ \E p \in Procs, o \in Ops, n \in Names, v \in Values : FairCall(p, o, n, v)
    \/ \E p \in Procs : Proceed(p)
    \/ \E loss \in BOOLEAN : Crash(loss)

FairSpec == Init /\ [][FairNext]_vars /\ \A p \in Procs : WF_vars(Proceed(p))

\* ----------------------------------------------------------------- claims
Writes == {"SetString", "SetFile"}

\* The goroutine is inside its exclusive section: between Lock's return and
\* the deferred Unlock.
InExclusive(p) ==
    \/ op[p] = "SetString"
         /\ pc[p] \in {"TempFile", "Copy", "Sync", "Close", "Replace", "WFDefer", "Unlock"}
    \/ op[p] = "SetFile" /\ pc[p] \in {"Replace", "Unlock"}
    \/ op[p] = "RemoveFile" /\ pc[p] \in {"Remove", "Unlock"}

\* The goroutine is inside its shared section: between RLock's return and
\* the deferred RUnlock.
InShared(p) == pc[p] \in {"Read", "RUnlock"}

\* The contents a complete write can leave at a name, and what GetString
\* returns for them.
CompleteContents == Values \cup {TrimSpace(v) : v \in Values}
CompleteStrings == {TrimSpace(v) : v \in CompleteContents}

\* GetString / GetFile has done its read and is about to return.
Returning(p, o) == op[p] = o /\ pc[p] = "RUnlock"

\* A call is in progress.
Pending == {p \in Procs : pc[p] # "idle"}

\* The caller of GetFile has read the handle to the end.
HandleWasRead(p) == op[p] = "GetFile" /\ pc[p] = "HClose"

\* C1: no torn reads. A GetString that returns a value returns the complete
\* trimmed content of a value that a write call stored, never a prefix, a
\* mix or the content of a temp file that is still being written.
C1_NoTornRead ==
    \A p \in Procs :
        (~crashed /\ Returning(p, "GetString") /\ err[p] = "nil")
            => ret[p] \in CompleteStrings

\* C2: a failed write leaves the destination unchanged. A SetString or
\* SetFile that holds an error has neither replaced the destination nor
\* written into a file that a destination path refers to.
C2_FailedWriteLeavesDestination ==
    \A p \in Procs :
        (op[p] \in Writes /\ err[p] # "nil") => ~hist[p].replaced /\ ~hist[p].wrote

\* C3: store-wide mutual exclusion. At most one call is inside an exclusive
\* section, and while one is, no GetString read and no GetFile open is
\* inside its shared section, whatever names the calls are about.
C3_StoreWideMutualExclusion ==
    /\ Cardinality({p \in Procs : InExclusive(p)}) <= 1
    /\ (\E p \in Procs : InExclusive(p)) => \A q \in Procs : ~InShared(q)

\* A call is inside its exclusive section while a call about another name
\* waits for the lock.
C3_Witness ==
    \E p, q \in Procs :
        /\ InExclusive(p)
        /\ pc[q] \in {"RLock", "Lock"}
        /\ name[q] # name[p]

\* C4, as the claim states it: for both SetString and SetFile the steps
\* before the replace step (create temp file, copy, sync, close) run without
\* the store lock held.
C4_WriteStagesUnlocked ==
    \A p \in Procs :
        (op[p] \in Writes /\ pc[p] \in {"TempFile", "Copy", "Sync", "Close"}) => muW # p

\* C4, amended: only SetFile runs the steps before the replace step without
\* the lock and holds it exclusively at the replace step; SetString holds
\* the exclusive lock from its first step to its last, so that no shared
\* section overlaps any of its steps.
C4_OnlySetFileStagesUnlocked ==
    \A p \in Procs :
        /\ (op[p] = "SetFile" /\ pc[p] \in {"TempFile", "Copy", "Sync", "Close", "Lock"})
               => muW # p
        /\ (op[p] = "SetFile" /\ pc[p] = "Replace") => muW = p /\ muR = {}
        /\ (op[p] = "SetString"
              /\ pc[p] \in {"TempFile", "Copy", "Sync", "Close", "Replace", "WFDefer"})
               => muW = p /\ muR = {}

\* A GetString has gone through its shared section and read the destination
\* while a SetFile is in the middle of its copy.
C4_Witness ==
    \E p, q \in Procs :
        /\ op[p] = "SetFile" /\ pc[p] = "Copy" /\ data[fd[p]] # <<>>
        /\ Returning(q, "GetString")

\* C5: no deadlock and guaranteed completion. Whenever calls are pending one
\* of them can take a step, and under fair scheduling every call that was
\* issued returns.
C5_NoDeadlockAndCompletion ==
    /\ [](Pending # {} => ENABLED (\E p \in Procs : Proceed(p)))
    /\ \A p \in Procs : (pc[p] # "idle") ~> (pc[p] = "idle")

\* A writer waits for a reader to leave.
C5_Witness ==
    \E p, q \in Procs :
        /\ pc[p] = "LockWait"
        /\ q \in muR

\* C6: string round trip with trimming. When the last write that took effect
\* on a name is a SetString of v, GetString returns TrimSpace(v), and
\* trimming what it returns changes nothing.
C6_StringRoundTrip ==
    \A p \in Procs :
        (~crashed /\ Returning(p, "GetString") /\ err[p] = "nil"
            /\ last[name[p]].by = "SetString")
            => ret[p] = TrimSpace(last[name[p]].val) /\ TrimSpace(ret[p]) = ret[p]

\* C7: not-found semantics. When a name holds nothing (never written with
\* success, or removed after its last successful write), the read of
\* GetString, the open of GetFile and the remove of RemoveFile fail with
\* NotFound and change neither the files nor what the names hold.
C7_NotFound ==
    [][\A p \in Procs :
          (pc[p] \in {"Read", "Remove"} /\ pc'[p] \in {"RUnlock", "Unlock"}
              /\ ~last[name[p]].has)
              => /\ err'[p] = "NotFound"
                 /\ dir' = dir /\ data' = data /\ durable' = durable
                 /\ last' = last]_vars

\* After a write and a RemoveFile of a name took effect, a GetString of the
\* name ends with NotFound.
C7_Witness ==
    \E p \in Procs :
        /\ Returning(p, "GetString")
        /\ last[name[p]].by = "RemoveFile"
        /\ err[p] = "NotFound"

\* C8: binary fidelity. When the last write that took effect on a name
\* before GetFile opened it is a SetFile of s, reading the handle to the end
\* yields exactly s.
C8_BinaryFidelity ==
    \A p \in Procs :
        (~crashed /\ HandleWasRead(p) /\ hist[p].want.by = "SetFile")
            => ret[p] = hist[p].want.val

\* C9: an open GetFile handle is stable. Reading the handle yields what the
\* file held when it was opened, whatever calls take effect in between.
C9_OpenHandleStable ==
    \A p \in Procs :
        (~crashed /\ HandleWasRead(p)) => ret[p] = hist[p].snap

\* C10: crash atomicity. After the process stopped in the middle of its
\* calls and was started again, GetString and GetFile return a complete
\* value, never a truncated or mixed one.
C10_CrashAtomicity ==
    crashed =>
        \A p \in Procs :
            /\ (Returning(p, "GetString") /\ err[p] = "nil") => ret[p] \in CompleteStrings
            /\ HandleWasRead(p) => ret[p] \in CompleteContents

\* The label setFile wraps the error of a stage with (lines 76-94).
StageLabel(stage) ==
    CASE stage = "TempFile" -> "create temp file"
      [] stage = "Copy" -> "save file"
      [] stage = "Sync" -> "sync changes"
      [] stage = "Close" -> "close file"
      [] stage = "Replace" -> "replace file"

StageLabels == {StageLabel(st) : st \in {"TempFile", "Copy", "Sync", "Close", "Replace"}}

\* The stage of a write fails in this step.
StageFails(p) == op[p] \in Writes /\ err[p] = "nil" /\ err'[p] # "nil"

\* A write that holds an error runs no stage any more: it is at its return
\* or in its deferred calls, and a setFile that failed before the replace
\* step does not hold the lock.
FailureStops ==
    \A p \in Procs :
        (op[p] \in Writes /\ err[p] # "nil")
            => /\ pc[p] \in {"Ret", "Defer", "WFDefer", "Unlock"}
               /\ (op[p] = "SetFile" /\ err[p] # StageLabel("Replace")) => muW # p

\* C11, as the claim states it: a SetString or SetFile that fails returns
\* the label of the first failing stage, and runs no later stage.
C11_StageLabelledErrors ==
    /\ []FailureStops
    /\ [][\A p \in Procs : StageFails(p) => err'[p] = StageLabel(pc[p])]_vars

\* C11, amended: a SetFile that fails returns the label of the first failing
\* stage; a SetString that fails returns the error of atomic.WriteFile, which
\* carries none of the store's labels; either runs no later stage.
C11_SetFileStageLabels ==
    /\ []FailureStops
    /\ [][\A p \in Procs :
             StageFails(p) =>
                 IF op[p] = "SetFile"
                 THEN err'[p] = StageLabel(pc[p])
                 ELSE err'[p] \notin StageLabels]_vars

\* A SetFile failed at its sync and a SetString failed, both about to return.
C11_Witness ==
    \E p, q \in Procs :
        /\ op[p] = "SetFile" /\ err[p] = StageLabel("Sync") /\ pc[p] = "Defer"
        /\ op[q] = "SetString" /\ err[q] # "nil"

\* C12: write-step ordering. The replace step comes after the temp file
\* received the complete content, was synced and was closed: the file a
\* destination path refers to holds a complete content, all of it durable,
\* and no write call has it open.
C12_ReplaceAfterWriteSyncClose ==
    \A n \in Names :
        dir[resolvePath(n)] # 0 =>
            /\ data[dir[resolvePath(n)]] \in CompleteContents
            /\ durable[dir[resolvePath(n)]] = data[dir[resolvePath(n)]]
            /\ \A p \in Procs : op[p] \in Writes => fd[p] # dir[resolvePath(n)]

\* The write call of p returns in this step.
WriteReturns(p) ==
    op[p] \in Writes /\ pc[p] # "idle" /\ pc'[p] = "idle" /\ crashed' = crashed

\* After the step the file that p's TempFile created is still there under
\* its temp name.
TempLeft(p) == created[p] # 0 /\ dir'[fname[p]] = created[p]

\* The deferred os.Remove of p's call failed.
RemoveFailed(p) ==
    \/ op[p] = "SetFile" /\ pc[p] = "Defer" /\ dir' = dir
    \/ op[p] = "SetString" /\ hist[p].kept

\* C13, as the claim states it: once a SetString or SetFile has returned, the
\* temp file it created no longer exists under its temp name.
C13_NoLeakedTempFile == [][\A p \in Procs : WriteReturns(p) => ~TempLeft(p)]_vars

\* C13, amended: once a SetString or SetFile has returned, the temp file it
\* created exists under its temp name only if the deferred os.Remove failed.
C13_NoLeakUnlessRemoveFails ==
    [][\A p \in Procs : (WriteReturns(p) /\ TempLeft(p)) => RemoveFailed(p)]_vars

\* All calls returned, a write failed on a name that another write stored,
\* and no temp file is left.
C13_Witness ==
    /\ Pending = {} /\ ~crashed
    /\ \E n \in failed : last[n].has
    /\ \A n \in Names, k \in Suffixes : dir[TempPath(n, k)] = 0

\* Every write and remove of name n that was issued has returned.
Settled(n) ==
    \A p \in Procs : (op[p] \in Writes \cup {"RemoveFile"}) => name[p] # n

Reads == {"GetString", "GetFile"}

\* A GetString or GetFile call of p takes a step: it takes the shared lock,
\* reads or opens the file, or releases the lock and returns.
ReadStep(p) ==
    /\ op[p] \in Reads
    /\ pc[p] \in {"RLock", "Read", "RUnlock"}
    /\ pc'[p] # pc[p]
    /\ crashed' = crashed

\* A goroutine that is in no call, or in the caller's code after GetFile
\* returned, holds the lock in no mode.
NoLockOutsideCalls ==
    \A p \in Procs : pc[p] \in {"idle", "HRead", "HClose"} => p \notin muR /\ muW # p

\* C15: reads have no side effects. No step of a GetString or GetFile,
\* successful or failing, changes the files, their contents or what a name
\* holds, and the call holds no lock after it returned.
C15_ReadsHaveNoSideEffects ==
    /\ []NoLockOutsideCalls
    /\ [][\A p \in Procs :
             ReadStep(p) =>
                 /\ dir' = dir /\ data' = data /\ durable' = durable /\ last' = last
                 /\ pc[p] = "RUnlock" => p \notin muR' /\ muW' # p]_vars

\* A GetFile fails with NotFound while a SetFile of another goroutine has a
\* partly written temp file and the other name holds a content.
C15_Witness ==
    \E p, q \in Procs :
        /\ Returning(p, "GetFile") /\ err[p] = "NotFound"
        /\ op[q] = "SetFile" /\ pc[q] = "Copy" /\ data[fd[q]] # <<>>
        /\ \E n \in Names : last[n].has

\* C16: linearizability. With each write and remove taking effect at its
\* replace or remove step under the exclusive lock, a GetString returns what
\* the map from names to values holds for its name (NotFound for no value,
\* else the trimmed value), and after a RemoveFile reported success or
\* NotFound the map holds nothing for its name.
C16_Linearizable ==
    \A p \in Procs :
        /\ (~crashed /\ Returning(p, "GetString"))
              => /\ err[p] = "NotFound" => ~last[name[p]].has
                 /\ err[p] = "nil" =>
                        /\ last[name[p]].has
                        /\ ret[p] = TrimSpace(last[name[p]].val)
        /\ (~crashed /\ op[p] = "RemoveFile" /\ pc[p] = "Unlock")
              => (err[p] \in {"nil", "NotFound"} => ~last[name[p]].has)

\* C17: cleanup touches only the caller's own temp file. When the deferred
\* os.Remove of a SetFile deletes a file, it is the file that this call's
\* TempFile created.
C17_CleanupOwnTempOnly ==
    [][\A p \in Procs :
          (pc[p] = "Defer" /\ pc'[p] = "idle" /\ dir' # dir)
              => dir[fname[p]] = created[p]]_vars

\* C18: lock acquire and release are balanced on every exit path. The
\* readers of the lock are the calls inside their shared section, its writer
\* is the call that waits in Lock for the readers or is inside its exclusive
\* section up to its deferred Unlock; a SetFile outside these positions, as
\* one that failed before the replace step, does not hold the lock; with no
\* call in progress the lock has no reader and no writer.
C18_LockBalanced ==
    /\ muR = {p \in Procs : InShared(p)}
    /\ muW \in Procs \cup {0}
    /\ \A p \in Procs : muW = p <=> (pc[p] = "LockWait" \/ InExclusive(p))
    /\ Pending = {} => muW = 0 /\ muR = {}

\* A SetFile that failed in its copy is about to return, while another call
\* is inside its exclusive section.
C18_Witness ==
    \E p, q \in Procs :
        /\ op[p] = "SetFile" /\ pc[p] = "Defer" /\ err[p] = StageLabel("Copy")
        /\ InExclusive(q) /\ muW = q

====
